---- MODULE Spec2Model ----
(***************************************************************************)
(* Model of smstools-http-api, src/api/__init__.py.                        *)
(*                                                                         *)
(* Two subsystems that share no state are modelled:                        *)
(*   - the modem health check (modem_status, get_csq, get_creg,            *)
(*     reset_modem, perform_reset) over the device lock SLOCK, the serial  *)
(*     device and the reset-timestamp file: specification Spec, and        *)
(*     FairSpec for its progress properties;                               *)
(*   - the spool writer (write_sms) over the outgoing queue directory:     *)
(*     specification SpoolSpec.                                            *)
(*                                                                         *)
(* Callers are request handlers running concurrently.  Each runs in a      *)
(* process; SLOCK is a module-level filelock.FileLock object (line 26), so *)
(* the threads of one process share one lock object while different        *)
(* processes contend on the lock file.                                     *)
(***************************************************************************)
EXTENDS Integers, Sequences, FiniteSets, TLC

(***************************************************************************)
(* Bounds of the model.                                                    *)
(***************************************************************************)
\* polls of the lock file a waiting caller makes before the 20 time-unit
\* timeout of SLOCK.acquire(timeout=20) has elapsed
MaxPolls == 2
\* number of clock ticks the model lets pass
MaxTicks == 1
\* the clock (time.time()) when the model starts, in time units
StartTime == 2000
\* number of send requests the model lets arrive
MaxRequests == 2
\* number of file-system calls of write_sms the model lets fail
MaxFaults == 1
\* longest text, in characters, of the requests that exercise the part count
MaxTextLen == 320

(***************************************************************************)
(* Program constants.                                                      *)
(***************************************************************************)
\* app.config.get('MODEM_MINIMUM_RESET_INTERVAL', 300)
DefaultResetInterval == 300
\* the length of one clock tick: a third of the cooldown, so that elapsed
\* times of 100, 200, 300 (the boundary) and 400 all occur
TickLen == DefaultResetInterval \div 3

Callers == {"c1", "c2"}
Procs == {"p1", "p2"}
NoProc == "none"

(***************************************************************************)
(* Python values held by the locals of the handlers.                       *)
(***************************************************************************)
PyNone == [t |-> "None"]
PyFalse == [t |-> "bool"]
PyInt(n) == [t |-> "int", v |-> n]
PyBytes(s) == [t |-> "bytes", b |-> s]

\* `not x' is false exactly for these
Truthy(x) ==
    CASE x.t = "bytes" -> Len(x.b) > 0
      [] x.t = "int" -> x.v # 0
      [] OTHER -> FALSE

(***************************************************************************)
(* Lines the serial device may deliver, as byte sequences.                 *)
(***************************************************************************)
EchoCsq == <<"A", "T", "+", "C", "S", "Q", "\r", "\n">>
EchoCreg == <<"A", "T", "+", "C", "R", "E", "G", "?", "\r", "\n">>
CsqUnknown == <<"+", "C", "S", "Q", ":", " ", "9", "9", ",", "9", "9", "\r", "\n">>
CsqGood == <<"+", "C", "S", "Q", ":", " ", "2", "0", ",", "9", "9", "\r", "\n">>
CsqWeak == <<"+", "C", "S", "Q", ":", " ", "5", ",", "9", "9", "\r", "\n">>
CregHome == <<"+", "C", "R", "E", "G", ":", " ", "1", ",", "1", "\r", "\n">>
CregOff == <<"+", "C", "R", "E", "G", ":", " ", "0", ",", "1", "\r", "\n">>
OkLine == <<"O", "K", "\r", "\n">>
NoLine == <<>>

\* what the device may send in answer to one command: the lines that the
\* following readline() calls find, in order; <<>> is a device that stays
\* silent
CsqAnswers ==
    {<<EchoCsq, CsqUnknown, OkLine>>, <<CsqUnknown, OkLine>>,
     <<CsqGood, OkLine>>, <<CsqWeak, OkLine>>, <<>>}
CregAnswers ==
    {<<EchoCreg, CregHome, OkLine>>, <<CregHome, OkLine>>,
     <<CregOff, OkLine>>, <<>>}
DeviceAnswers(o) == IF o = "csq" THEN CsqAnswers ELSE CregAnswers

\* other things a readline() may return: a blank line, an error report, a
\* line cut short by the timeout, replies the patterns do not match, a byte
\* outside us-ascii
BlankLine == <<"\r", "\n">>
ErrorLine == <<"E", "R", "R", "O", "R", "\r", "\n">>
CutEcho == <<"A", "T">>
CsqNoDigits == <<"+", "C", "S", "Q", ":", " ", ",", "9", "9", "\r", "\n">>
CsqThreeDigits ==
    <<"+", "C", "S", "Q", ":", " ", "1", "2", "3", ",", "9", "9", "\r", "\n">>
CregTwoDigits ==
    <<"+", "C", "R", "E", "G", ":", " ", "1", "2", ",", "1", "\r", "\n">>
HighByte == <<"0xFF", "\n">>

\* any line may arrive at any readline() call
AnyLines ==
    {NoLine, EchoCsq, EchoCreg, CsqUnknown, CsqGood, CregHome, OkLine,
     BlankLine, ErrorLine, CutEcho, CsqNoDigits, CsqThreeDigits,
     CregTwoDigits, HighByte}
\* what the three readline() calls of one exchange may find
AnyAnswers == {<<a, b, d>> : a \in AnyLines, b \in AnyLines, d \in AnyLines}

Digits == {"0", "1", "2", "3", "4", "5", "6", "7", "8", "9"}
Whitespace == {" ", "\t", "\n", "\r", "\f"}

DigitVal(ch) ==
    CASE ch = "0" -> 0 [] ch = "1" -> 1 [] ch = "2" -> 2 [] ch = "3" -> 3
      [] ch = "4" -> 4 [] ch = "5" -> 5 [] ch = "6" -> 6 [] ch = "7" -> 7
      [] ch = "8" -> 8 [] ch = "9" -> 9

\* bytes.startswith(prefix)
StartsWith(s, prefix) ==
    /\ Len(s) >= Len(prefix)
    /\ SubSeq(s, 1, Len(prefix)) = prefix

\* no line is taken for an echo
IsEcho_Never(line) == FALSE

\* csq.startswith(b'AT'): the line is an echo of the command
IsEcho(line) == StartsWith(line, <<"A", "T">>)

\* bytes.strip(): leading and trailing whitespace removed
RECURSIVE LStrip(_)
LStrip(s) ==
    IF s # <<>> /\ Head(s) \in Whitespace THEN LStrip(Tail(s)) ELSE s

RECURSIVE RStrip(_)
RStrip(s) ==
    IF s # <<>> /\ s[Len(s)] \in Whitespace
    THEN RStrip(SubSeq(s, 1, Len(s) - 1))
    ELSE s

Strip(s) == RStrip(LStrip(s))

IsDigitAt(s, i) == i <= Len(s) /\ s[i] \in Digits
IsCharAt(s, i, ch) == i <= Len(s) /\ s[i] = ch

\* CSQ_REGEX = r'\+CSQ: (\d{1,2}),' matched at the start of the line: the
\* captured group, or <<>> when there is no match
CsqPrefix == <<"+", "C", "S", "Q", ":", " ">>
CsqMatch(s) ==
    IF ~StartsWith(s, CsqPrefix) \/ ~IsDigitAt(s, 7) THEN <<>>
    ELSE IF IsDigitAt(s, 8) /\ IsCharAt(s, 9, ",") THEN <<s[7], s[8]>>
    ELSE IF IsCharAt(s, 8, ",") THEN <<s[7]>>
    ELSE <<>>

\* int() of a captured group of one or two digits
IntOfDigits(g) ==
    IF Len(g) = 1 THEN DigitVal(g[1]) ELSE 10 * DigitVal(g[1]) + DigitVal(g[2])

parse_csq(s) ==
    IF CsqMatch(s) = <<>> THEN 0 ELSE IntOfDigits(CsqMatch(s))

\* CREG_REGEX = r'\+CREG: (\d),\d' matched at the start of the line
CregPrefix == <<"+", "C", "R", "E", "G", ":", " ">>
CregMatch(s) ==
    IF /\ StartsWith(s, CregPrefix)
       /\ IsDigitAt(s, 8)
       /\ IsCharAt(s, 9, ",")
       /\ IsDigitAt(s, 10)
    THEN <<s[8]>>
    ELSE <<>>

parse_creg(s) ==
    IF CregMatch(s) = <<>> THEN -1 ELSE IntOfDigits(CregMatch(s))

(***************************************************************************)
(* The reset-timestamp file MODEM_RESET_TIMESTAMP_PATH.                    *)
(***************************************************************************)
FileMissing == [t |-> "missing"]
FileEmpty == [t |-> "empty"]
FileGarbage == [t |-> "garbage"]
\* str(time.time()): the clock of the model counts whole time units, which
\* str() prints and float() reads back exactly
FileNum(n) == [t |-> "num", v |-> n]

\* float(last_from_file.strip()) with `except ValueError: last = 0'
LastFromFile(content) == IF content.t = "num" THEN content.v ELSE 0

\* the file when the model starts: absent, unparsable, or a reset 100, 300
\* or 400 time units ago
InitialResetFiles ==
    {FileMissing, FileGarbage, FileNum(StartTime - TickLen),
     FileNum(StartTime - 3 * TickLen), FileNum(StartTime - 4 * TickLen)}

VARIABLES
    procOf,       \* the process each caller runs in
    lockCounter,  \* SLOCK._lock_counter of each process
    flockHolder,  \* the process holding the lock file, or NoProc
    openDevices,  \* callers with an open serial.Serial handle
    clock,        \* time.time()
    resetFile,    \* content of the reset-timestamp file
    pc,           \* each caller's position
    op,           \* the operation a caller runs under SLOCK: csq, creg, reset
    polls,        \* polls made in the current SLOCK.acquire
    rx,           \* lines the device has sent to the caller's open handle
    csq, creg, ok,        \* locals of get_csq / get_creg / modem_status
    now, last_from_file, last, created,   \* locals of reset_modem
    wbuf,         \* reset_file's unflushed write
    rv,           \* what modem_status returned for the caller's last request
    fault,        \* the failure that hit the caller's current operation
    invoked,      \* reset actions spawned by the caller's current request
    written       \* what the current request stored in the reset file

modemVars ==
    <<procOf, lockCounter, flockHolder, openDevices, clock, resetFile, pc, op,
      polls, rx, csq, creg, ok, now, last_from_file, last, created, wbuf, rv,
      fault, invoked, written>>

\* a caller's locals
locals == <<op, polls, rx, csq, creg, ok, now, last_from_file, last, created,
            wbuf, fault, invoked, written>>
\* the lock, the device and the clock
lockVars == <<lockCounter, flockHolder>>

VARIABLES
    outgoingLock, \* the files <name>.LOCK of the OUTGOING directory, by name
    outgoing,     \* the files <name> of the OUTGOING directory, by name
    wpc,          \* each sender's position in create_sms / write_sms
    username,     \* auth.username() of the sender's request
    sms,          \* the sms dict write_sms was called with
    mobile_i,     \* position of the `for mobile in sms['mobiles']' loop
    result,       \* locals of write_sms
    msg_file, msg, ucs_field, parts_count,
    response,     \* what the view returned for the sender's last request
    requests,     \* number of send requests that have arrived
    faults        \* number of file-system calls that have failed

spoolVars ==
    <<outgoingLock, outgoing, wpc, username, sms, mobile_i, result, msg_file,
      msg, ucs_field, parts_count, response, requests, faults>>

\* the counters of the model's bounds
counters == <<requests, faults>>

\* a sender's locals
sendLocals ==
    <<username, sms, mobile_i, result, msg_file, msg, ucs_field, parts_count>>

vars == <<modemVars, spoolVars>>

Upd(f, c, v) == [f EXCEPT ![c] = v]

\* the view's return values; NoResponse before the first request returns
NoResponse == [t |-> "noresponse"]
RvError(message) ==
    [t |-> "error", status |-> 500, error |-> message]
NotAvailable == RvError("modem not available")
WeakSignal == RvError("modem not connected or weak signal")
RegistrationProblem == RvError("registration problem")
\* @app.errorhandler(500), for an exception that leaves the view
InternalError == RvError("Internal error")

\* threads of one process, or one process per caller
Deployments ==
    {[c \in Callers |-> "p1"],
     [c \in Callers |-> IF c = "c1" THEN "p1" ELSE "p2"]}

ModemInit ==
    /\ procOf \in Deployments
    /\ lockCounter = [p \in Procs |-> 0]
    /\ flockHolder = NoProc
    /\ openDevices = {}
    /\ clock = StartTime
    /\ resetFile \in InitialResetFiles
    /\ pc = [c \in Callers |-> "idle"]
    /\ op = [c \in Callers |-> "none"]
    /\ polls = [c \in Callers |-> 0]
    /\ rx = [c \in Callers |-> <<>>]
    /\ csq = [c \in Callers |-> PyNone]
    /\ creg = [c \in Callers |-> PyNone]
    /\ ok = [c \in Callers |-> PyNone]
    /\ now = [c \in Callers |-> 0]
    /\ last_from_file = [c \in Callers |-> PyNone]
    /\ last = [c \in Callers |-> 0]
    /\ created = [c \in Callers |-> FALSE]
    /\ wbuf = [c \in Callers |-> PyNone]
    /\ rv = [c \in Callers |-> NoResponse]
    /\ fault = [c \in Callers |-> "none"]
    /\ invoked = [c \in Callers |-> 0]
    /\ written = [c \in Callers |-> PyNone]

(***************************************************************************)
(* SLOCK: filelock.FileLock.  acquire() counts the acquisition in the lock *)
(* object's counter, then polls: when the object already holds the lock    *)
(* file (is_locked) or can take it, the caller goes on; otherwise it       *)
(* sleeps and polls again until the timeout has elapsed, when it takes its *)
(* count back and raises filelock.Timeout.  Leaving the `with' block       *)
(* decrements the counter and gives the lock file up when it reaches 0.    *)
(***************************************************************************)
\* the lock file can be had by process p: it is free, or the lock object of
\* p already holds it
LockAvailable(p) == flockHolder \in {NoProc, p}

\* an acquisition that never gives up
TimedOut_Never(n) == FALSE

\* the timeout of SLOCK.acquire(timeout=20) has elapsed after n polls
TimedOut(n) == n >= MaxPolls

\* the first statement inside `with SLOCK.acquire(timeout=20):'
AfterAcquire(o) == IF o = "reset" THEN "spawn" ELSE "open"

\* the except clauses returning None for both replies
FailureReply_NoSentinel(o) == PyNone

\* what get_csq / get_creg return as the reply from their except clauses
FailureReply(o) == IF o = "csq" THEN PyInt(0) ELSE PyNone

\* the reply local of the running exchange: csq in get_csq, creg in get_creg
SetReply(c, v) ==
    /\ csq' = IF op[c] = "csq" THEN Upd(csq, c, v) ELSE csq
    /\ creg' = IF op[c] = "creg" THEN Upd(creg, c, v) ELSE creg

\* the except clauses: get_csq and get_creg return (sentinel, False),
\* perform_reset logs a warning
Handle(c, kind) ==
    /\ fault' = Upd(fault, c, kind)
    /\ IF op[c] = "reset"
       THEN UNCHANGED <<csq, creg, ok>>
       ELSE SetReply(c, FailureReply(op[c])) /\ ok' = Upd(ok, c, PyFalse)

\* a serial.SerialException that leaves both `with' blocks without running
\* their __exit__
SerialErrorTarget_NoUnwind == "ret"

\* where a serial.SerialException raised inside `with serial.Serial(...)'
\* continues: the device's __exit__, then the except clause and SLOCK's
\* __exit__
SerialErrorTarget == "close"

\* the lock file's holder once process p has left a `with SLOCK' block
\* with n acquisitions counted: given up when the count reaches 0
HolderAfterRelease(p, n) == IF n = 1 THEN NoProc ELSE flockHolder

AcquireBegin(c) ==
    /\ pc[c] = "acquire"
    /\ lockCounter' = [lockCounter EXCEPT ![procOf[c]] = @ + 1]
    /\ pc' = Upd(pc, c, "poll")
    /\ UNCHANGED <<spoolVars, procOf, flockHolder, openDevices, clock, resetFile, rv,
                   locals>>

AcquirePoll(c) ==
    /\ pc[c] = "poll"
    /\ \/ /\ LockAvailable(procOf[c])
          /\ flockHolder' = procOf[c]
          /\ pc' = Upd(pc, c, AfterAcquire(op[c]))
          /\ polls' = Upd(polls, c, 0)
          /\ UNCHANGED <<lockCounter, csq, creg, ok, fault>>
       \/ /\ ~LockAvailable(procOf[c])
          /\ ~TimedOut(polls[c])
          /\ polls' = Upd(polls, c, polls[c] + 1)
          /\ UNCHANGED <<lockVars, pc, csq, creg, ok, fault>>
       \/ /\ ~LockAvailable(procOf[c])
          /\ TimedOut(polls[c])
          /\ lockCounter' = [lockCounter EXCEPT ![procOf[c]] = @ - 1]
          /\ polls' = Upd(polls, c, 0)
          /\ Handle(c, "timeout")
          /\ pc' = Upd(pc, c, "ret")
          /\ UNCHANGED flockHolder
    /\ UNCHANGED <<spoolVars, procOf, openDevices, clock, resetFile, rv, op, rx, now, last_from_file,
                   last, created, wbuf, invoked, written>>

\* SLOCK's __exit__
Release(c) ==
    /\ pc[c] = "release"
    /\ lockCounter' = [lockCounter EXCEPT ![procOf[c]] = @ - 1]
    /\ flockHolder' = HolderAfterRelease(procOf[c], lockCounter[procOf[c]])
    /\ pc' = Upd(pc, c, "ret")
    /\ UNCHANGED <<spoolVars, procOf, openDevices, clock, resetFile, rv, locals>>

(***************************************************************************)
(* get_csq / get_creg: the exchange with the serial device.                *)
(***************************************************************************)
\* serial.Serial(SERIAL_DEVICE_PATH, timeout=1)
SerialOpen(c) ==
    /\ pc[c] = "open"
    /\ \/ /\ openDevices' = openDevices \cup {c}
          /\ pc' = Upd(pc, c, "write")
          /\ UNCHANGED <<csq, creg, ok, fault>>
       \/ /\ Handle(c, "serial")
          /\ pc' = Upd(pc, c, "release")
          /\ UNCHANGED openDevices
    /\ UNCHANGED <<spoolVars, procOf, lockVars, clock, resetFile, rv, op, polls, rx, now, last_from_file,
                   last, created, wbuf, invoked, written>>

\* device.write(b'AT+CSQ\r\n') / device.write(b'AT+CREG?\r\n'), and what
\* the device sends back
SerialWriteFrom(c, answers) ==
    /\ pc[c] = "write"
    /\ \/ /\ \E answer \in answers : rx' = Upd(rx, c, answer)
          /\ pc' = Upd(pc, c, "read1")
          /\ UNCHANGED <<csq, creg, ok, fault>>
       \/ /\ Handle(c, "serial")
          /\ pc' = Upd(pc, c, SerialErrorTarget)
          /\ UNCHANGED rx
    /\ UNCHANGED <<spoolVars, procOf, lockVars, openDevices, clock, resetFile, rv, op,
                   polls, now, last_from_file, last, created, wbuf, invoked, written>>

\* the device answers as a modem does
SerialWrite(c) == SerialWriteFrom(c, DeviceAnswers(op[c]))

\* device.readline() with timeout=1: the next line the device has sent, or
\* b'' when nothing arrives within the timeout
ReadLine(buf) == IF buf = <<>> THEN NoLine ELSE Head(buf)
AfterReadLine(buf) == IF buf = <<>> THEN <<>> ELSE Tail(buf)

\* csq = device.readline(); after an echo, csq = device.readline() again
ReadReply(c) ==
    /\ pc[c] \in {"read1", "read2"}
    /\ \/ /\ SetReply(c, PyBytes(ReadLine(rx[c])))
          /\ rx' = Upd(rx, c, AfterReadLine(rx[c]))
          /\ pc' = Upd(pc, c, IF pc[c] = "read1" /\ IsEcho(ReadLine(rx[c]))
                              THEN "read2" ELSE "read3")
          /\ UNCHANGED <<ok, fault>>
       \/ /\ Handle(c, "serial")
          /\ pc' = Upd(pc, c, SerialErrorTarget)
          /\ UNCHANGED rx
    /\ UNCHANGED <<spoolVars, procOf, lockVars, openDevices, clock, resetFile, rv, op,
                   polls, now, last_from_file, last, created, wbuf, invoked, written>>

\* ok = device.readline().strip()
ReadOk(c) ==
    /\ pc[c] = "read3"
    /\ \/ /\ ok' = Upd(ok, c, PyBytes(Strip(ReadLine(rx[c]))))
          /\ rx' = Upd(rx, c, AfterReadLine(rx[c]))
          /\ pc' = Upd(pc, c, "close")
          /\ UNCHANGED <<csq, creg, fault>>
       \/ /\ Handle(c, "serial")
          /\ pc' = Upd(pc, c, SerialErrorTarget)
          /\ UNCHANGED rx
    /\ UNCHANGED <<spoolVars, procOf, lockVars, openDevices, clock, resetFile, rv, op,
                   polls, now, last_from_file, last, created, wbuf, invoked, written>>

\* serial.Serial's __exit__
SerialClose(c) ==
    /\ pc[c] = "close"
    /\ openDevices' = openDevices \ {c}
    /\ rx' = Upd(rx, c, <<>>)
    /\ pc' = Upd(pc, c, "release")
    /\ UNCHANGED <<spoolVars, procOf, lockVars, clock, resetFile, rv, op, polls, csq,
                   creg, ok, now, last_from_file, last, created, wbuf, fault, invoked, written>>

(***************************************************************************)
(* modem_status                                                            *)
(***************************************************************************)
\* a request arrives: csq, ok = get_csq()
StartRequest(c) ==
    /\ pc[c] = "idle"
    /\ pc' = Upd(pc, c, "acquire")
    /\ op' = Upd(op, c, "csq")
    /\ rv' = Upd(rv, c, NoResponse)
    /\ UNCHANGED <<spoolVars, procOf, lockVars, openDevices, clock, resetFile, polls, rx,
                   csq, creg, ok, now, last_from_file, last, created, wbuf, fault, invoked,
                   written>>

\* the range closed at 99
SignalInRange_Inclusive(s) == 10 <= s /\ s <= 99

\* 10 <= csq_status < 99
SignalInRange(s) == 10 <= s /\ s < 99

\* the view returns v and its frame is gone
Respond(c, v) ==
    /\ rv' = Upd(rv, c, v)
    /\ pc' = Upd(pc, c, "idle")
    /\ op' = Upd(op, c, "none")
    /\ polls' = Upd(polls, c, 0)
    /\ rx' = Upd(rx, c, <<>>)
    /\ csq' = Upd(csq, c, PyNone)
    /\ creg' = Upd(creg, c, PyNone)
    /\ ok' = Upd(ok, c, PyNone)
    /\ now' = Upd(now, c, 0)
    /\ last_from_file' = Upd(last_from_file, c, PyNone)
    /\ last' = Upd(last, c, 0)
    /\ created' = Upd(created, c, FALSE)
    /\ wbuf' = Upd(wbuf, c, PyNone)
    /\ fault' = Upd(fault, c, "none")
    /\ invoked' = Upd(invoked, c, 0)
    /\ written' = Upd(written, c, PyNone)

\* lines 331-342 once get_csq has returned (okv, csqv): what modem_status
\* does next.  parse_csq of a value that is no byte string raises TypeError
CsqVerdict(okv, csqv) ==
    IF ~Truthy(okv) THEN "unavailable"
    ELSE IF csqv.t # "bytes" THEN "TypeError"
    ELSE IF SignalInRange(parse_csq(csqv.b)) THEN "registration"
    ELSE IF parse_csq(csqv.b) = 99 THEN "reset"
    ELSE "weak"

\* lines 343-348 once get_creg has returned (okv, cregv); "None" is the end
\* of the view without a return statement
CregVerdict(okv, cregv) ==
    IF ~Truthy(okv) THEN "unavailable"
    ELSE IF cregv.t # "bytes" THEN "TypeError"
    ELSE IF parse_creg(cregv.b) \notin {1, 5} THEN "registration problem"
    ELSE "None"

\* what the view returns on verdict v; an exception that leaves the view
\* is answered by the 500 handler of line 271
VerdictResponse(v) ==
    CASE v = "unavailable" -> NotAvailable
      [] v = "weak" -> WeakSignal
      [] v = "registration problem" -> RegistrationProblem
      [] v = "None" -> PyNone
      [] OTHER -> InternalError

\* get_csq has returned
AfterCsq(c) ==
    /\ pc[c] = "ret"
    /\ op[c] = "csq"
    /\ \/ /\ CsqVerdict(ok[c], csq[c]) \in {"unavailable", "weak", "TypeError"}
          /\ Respond(c, VerdictResponse(CsqVerdict(ok[c], csq[c])))
       \/ /\ CsqVerdict(ok[c], csq[c]) = "reset"
          /\ pc' = Upd(pc, c, "rm_now")
          /\ UNCHANGED <<rv, locals>>
       \/ /\ CsqVerdict(ok[c], csq[c]) = "registration"
          /\ op' = Upd(op, c, "creg")
          /\ pc' = Upd(pc, c, "acquire")
          /\ UNCHANGED <<rv, polls, rx, csq, creg, ok, now, last_from_file,
                         last, created, wbuf, fault, invoked, written>>
    /\ UNCHANGED <<spoolVars, procOf, lockVars, openDevices, clock, resetFile>>

\* get_creg has returned
AfterCreg(c) ==
    /\ pc[c] = "ret"
    /\ op[c] = "creg"
    /\ Respond(c, VerdictResponse(CregVerdict(ok[c], creg[c])))
    /\ UNCHANGED <<spoolVars, procOf, lockVars, openDevices, clock, resetFile>>

(***************************************************************************)
(* reset_modem / get_modem_reset_file / perform_reset                      *)
(***************************************************************************)
\* the comparison made non-strict against a shorter interval
ResetDue_NonStrict(n, l) == n - l >= DefaultResetInterval \div 3

\* now - last > app.config.get('MODEM_MINIMUM_RESET_INTERVAL', 300)
ResetDue(n, l) == n - l > DefaultResetInterval

\* now = time.time()
ResetNow(c) ==
    /\ pc[c] = "rm_now"
    /\ now' = Upd(now, c, clock)
    /\ pc' = Upd(pc, c, "rm_open")
    /\ UNCHANGED <<spoolVars, procOf, lockVars, openDevices, clock, resetFile, rv, op,
                   polls, rx, csq, creg, ok, last_from_file, last, created, wbuf, fault,
                   invoked, written>>

\* get_modem_reset_file: open(..., 'r+'), which fails when there is no file
ResetOpen(c) ==
    /\ pc[c] = "rm_open"
    /\ \/ /\ resetFile # FileMissing
          /\ pc' = Upd(pc, c, "rm_read")
       \/ /\ resetFile = FileMissing
          /\ pc' = Upd(pc, c, "rm_create")
    /\ UNCHANGED <<spoolVars, procOf, lockVars, openDevices, clock, resetFile, rv, locals>>

\* except IOError: open(..., 'w') creates the file, or empties the one
\* another caller has made meanwhile; then `if created: last = 0'
ResetCreate(c) ==
    /\ pc[c] = "rm_create"
    /\ resetFile' = FileEmpty
    /\ created' = Upd(created, c, TRUE)
    /\ last' = Upd(last, c, 0)
    /\ pc' = Upd(pc, c, "rm_decide")
    /\ UNCHANGED <<spoolVars, procOf, lockVars, openDevices, clock, rv, op, polls, rx,
                   csq, creg, ok, now, last_from_file, wbuf, fault, invoked, written>>

\* last_from_file = reset_file.read(); last = float(...) or 0
ResetRead(c) ==
    /\ pc[c] = "rm_read"
    /\ last_from_file' = Upd(last_from_file, c, resetFile)
    /\ last' = Upd(last, c, LastFromFile(resetFile))
    /\ pc' = Upd(pc, c, "rm_decide")
    /\ UNCHANGED <<spoolVars, procOf, lockVars, openDevices, clock, resetFile, rv, op,
                   polls, rx, csq, creg, ok, now, created, wbuf, fault, invoked,
                   written>>

\* line 135: perform_reset() when the reset is due, else leave the `with'
ResetDecide(c) ==
    /\ pc[c] = "rm_decide"
    /\ \/ /\ ResetDue(now[c], last[c])
          /\ op' = Upd(op, c, "reset")
          /\ pc' = Upd(pc, c, "acquire")
       \/ /\ ~ResetDue(now[c], last[c])
          /\ pc' = Upd(pc, c, "rm_close")
          /\ UNCHANGED op
    /\ UNCHANGED <<spoolVars, procOf, lockVars, openDevices, clock, resetFile, rv, polls,
                   rx, csq, creg, ok, now, last_from_file, last, created, wbuf, fault, invoked,
                   written>>

\* subprocess.Popen((RESET_MODEM,)) inside `with SLOCK.acquire(timeout=20)'
Spawn(c) ==
    /\ pc[c] = "spawn"
    /\ invoked' = Upd(invoked, c, invoked[c] + 1)
    /\ pc' = Upd(pc, c, "release")
    /\ UNCHANGED <<spoolVars, procOf, lockVars, openDevices, clock, resetFile, rv, op,
                   polls, rx, csq, creg, ok, now, last_from_file, last, created, wbuf, fault,
                   written>>

\* the statement reset_modem runs once perform_reset() has returned: lines
\* 137-139 follow the call whether the reset action was spawned (failed =
\* FALSE) or the lock timed out (failed = TRUE)
AfterPerformReset(failed) == "rm_write"

\* perform_reset has returned to reset_modem
AfterReset(c) ==
    /\ pc[c] = "ret"
    /\ op[c] = "reset"
    /\ pc' = Upd(pc, c, AfterPerformReset(fault[c] # "none"))
    /\ UNCHANGED <<spoolVars, procOf, lockVars, openDevices, clock, resetFile, rv, locals>>

\* the value line 138 writes: str(time.time()), read when the write is made
TimestampToWrite(c) == clock

\* reset_file.seek(0); reset_file.write(str(time.time())): buffered
ResetWrite(c) ==
    /\ pc[c] = "rm_write"
    /\ wbuf' = Upd(wbuf, c, FileNum(TimestampToWrite(c)))
    /\ pc' = Upd(pc, c, "rm_truncate")
    /\ UNCHANGED <<spoolVars, procOf, lockVars, openDevices, clock, resetFile, rv, op,
                   polls, rx, csq, creg, ok, now, last_from_file, last, created, fault,
                   invoked, written>>

\* reset_file.truncate(): flushes the write and cuts the file after it
ResetTruncate(c) ==
    /\ pc[c] = "rm_truncate"
    /\ resetFile' = wbuf[c]
    /\ written' = Upd(written, c, wbuf[c])
    /\ pc' = Upd(pc, c, "rm_close")
    /\ UNCHANGED <<spoolVars, procOf, lockVars, openDevices, clock, rv, op, polls, rx,
                   csq, creg, ok, now, last_from_file, last, created, wbuf, fault, invoked>>

\* the end of `with reset_file:', then line 340
ResetClose(c) ==
    /\ pc[c] = "rm_close"
    /\ Respond(c, WeakSignal)
    /\ UNCHANGED <<spoolVars, procOf, lockVars, openDevices, clock, resetFile>>

\* time passes
Tick ==
    /\ clock < StartTime + MaxTicks * TickLen
    /\ clock' = clock + TickLen
    /\ UNCHANGED <<spoolVars, procOf, lockVars, openDevices, resetFile, pc, rv, locals>>

(***************************************************************************)
(* The spool writer: create_sms / simple_send_sms calling write_sms, and   *)
(* the OUTGOING directory the SMS daemon consumes.                         *)
(***************************************************************************)
Senders == {"s1", "s2"}

\* names <PREFIX><random> that tempfile.mkstemp may generate
Stems == {"sms_a", "sms_b"}
\* msg_file outside the loop body
NoStem == ""

PyStr(s) == [t |-> "str", s |-> s]
NotValidMarker == PyStr("Not valid")
ForbiddenMarker == PyStr("Forbidden")
\* msg_file.split('/')[-1]: the base name of the spool file of stem n
BaseName(n) == [t |-> "name", stem |-> n]

\* u'\xb2', a character for which unicode.isdigit() holds and that
\* us-ascii cannot encode
SuperscriptTwo == "U+00B2"

Mobile71 == <<"7", "1">>
Mobile72 == <<"7", "2">>
MobilePlus == <<"+", "7">>
MobileSup == <<"7", SuperscriptTwo>>


\* app.config['MOBILE_PERMS']: of the users "anna" and "bert", "bert" has an
\* entry
MOBILE_PERMS == [u \in {"bert"} |-> <<Mobile71>>]

\* request texts, by what write_sms looks at: len(sms['text']) and whether
\* sms['text'].encode('us-ascii') succeeds
TextShort == [len |-> 5, ascii |-> TRUE]
TextUcs == [len |-> 71, ascii |-> FALSE]

\* the send requests that arrive: the authenticated user and the sms dict
\* the view builds (lines 294-297, 315-318)
Requests ==
    {[user |-> "anna", mobiles |-> <<Mobile71, Mobile72>>, text |-> TextShort],
     [user |-> "bert", mobiles |-> <<MobilePlus, Mobile72, Mobile71>>,
      text |-> TextUcs],
     [user |-> "bert", mobiles |-> <<Mobile72>>, text |-> TextUcs],
     [user |-> "anna", mobiles |-> <<MobileSup>>, text |-> TextShort]}

\* unicode.isdigit() of one character
IsUnicodeDigit(ch) == ch \in Digits \cup {SuperscriptTwo}

\* the implicit us-ascii encoding of a unicode string that file.write makes
\* succeeds
IsAsciiStr(m) == \A i \in 1 .. Len(m) : m[i] # SuperscriptTwo

\* mobile.isdigit()
validate_mobile(mobile) ==
    /\ Len(mobile) > 0
    /\ \A i \in 1 .. Len(mobile) : IsUnicodeDigit(mobile[i])

\* access_mobile: None (falsy) only for a user with a MOBILE_PERMS entry
\* that does not list the mobile
access_mobile(user, mobile) ==
    IF user \in DOMAIN MOBILE_PERMS
    THEN \E i \in 1 .. Len(MOBILE_PERMS[user]) : MOBILE_PERMS[user][i] = mobile
    ELSE TRUE

\* a remainder check that always, respectively never, adds a part
Remainder_Always(msg_len, size) == 1
Remainder_Never(msg_len, size) == 0

\* int(msg_len % size > 0)
Remainder(msg_len, size) == IF msg_len % size > 0 THEN 1 ELSE 0

\* lines 187-195: the ucs_field and parts_count write_sms has after
\* encoding text, given the parts_count it had before
UcsAfterEncode(text, ucs) == IF text.ascii THEN ucs ELSE TRUE

PartsAfterEncode(text, parts) ==
    IF text.ascii
    THEN IF text.len > 160
         THEN text.len \div 153 + Remainder(text.len, 153)
         ELSE parts
    ELSE IF text.len > 70
         THEN text.len \div 67 + Remainder(text.len, 67)
         ELSE parts

\* msg: the encoded text
Encoded(text) ==
    [enc |-> IF text.ascii THEN "us-ascii" ELSE "utf-16-be", text |-> text]

\* files of the OUTGOING directory
NoFile == [t |-> "absent"]
SpoolFile(data, mode) == [t |-> "file", data |-> data, mode |-> mode]
\* the mode tempfile.mkstemp creates a file with: 0600
MkstempMode == 384
\* os.chmod(msg_file, 0666)
SpoolMode == 438

\* what the f.write calls put into the file
FromLine(user) == [h |-> "From", v |-> user]
AlphabetLine == [h |-> "Alphabet", v |-> "UCS"]
\* 'To: ' + mobile + '\n\n': the To header and the blank line
ToLines(mobile) == [h |-> "To", v |-> mobile]
Body(m) == [h |-> "body", v |-> m]

\* a Python dict; d[k] = v
EmptyDict == <<>>
DictSet(d, k, v) ==
    [x \in (DOMAIN d) \cup {k} |-> IF x = k THEN v ELSE d[x]]

\* the locals of a sender outside a request
NoSms == [mobiles |-> <<>>, text |-> [len |-> 0, ascii |-> TRUE]]

SpoolInit ==
    /\ outgoingLock = [n \in Stems |-> NoFile]
    /\ outgoing = [n \in Stems |-> NoFile]
    /\ wpc = [s \in Senders |-> "idle"]
    /\ username = [s \in Senders |-> ""]
    /\ sms = [s \in Senders |-> NoSms]
    /\ mobile_i = [s \in Senders |-> 0]
    /\ result = [s \in Senders |-> PyNone]
    /\ msg_file = [s \in Senders |-> NoStem]
    /\ msg = [s \in Senders |-> PyNone]
    /\ ucs_field = [s \in Senders |-> FALSE]
    /\ parts_count = [s \in Senders |-> 1]
    /\ response = [s \in Senders |-> NoResponse]
    /\ requests = 0
    /\ faults = 0

\* the request is over: its locals are gone
ClearLocals(s) ==
    /\ username' = Upd(username, s, "")
    /\ sms' = Upd(sms, s, NoSms)
    /\ mobile_i' = Upd(mobile_i, s, 0)
    /\ result' = Upd(result, s, PyNone)
    /\ msg_file' = Upd(msg_file, s, NoStem)
    /\ msg' = Upd(msg, s, PyNone)
    /\ ucs_field' = Upd(ucs_field, s, FALSE)
    /\ parts_count' = Upd(parts_count, s, 1)

\* an exception leaves write_sms and the view, which have no handler for
\* it: the 500 error handler answers and the request is over
Abort(s) ==
    /\ response' = Upd(response, s, InternalError)
    /\ wpc' = Upd(wpc, s, "idle")
    /\ ClearLocals(s)

\* jsonify(result), 201
Created(body) == [t |-> "result", status |-> 201, body |-> body]

\* the loop is at a mobile
AtMobile(s) == wpc[s] = "for" /\ mobile_i[s] <= Len(sms[s].mobiles)
\* the loop variable
Mobile(s) == sms[s].mobiles[mobile_i[s]]

\* the statement that follows statement p of the `with open(...)' block
StatementAfter_RenameEarly(p, ucs) ==
    CASE p = "open" -> "w_from"
      [] p = "w_from" -> IF ucs THEN "w_ucs" ELSE "w_to"
      [] p = "w_ucs" -> "w_to"
      [] p = "w_to" -> "rename"
      [] p = "w_body" -> "rename"
      [] p = "rename" -> "chmod"

StatementAfter(p, ucs) ==
    CASE p = "open" -> "w_from"
      [] p = "w_from" -> IF ucs THEN "w_ucs" ELSE "w_to"
      [] p = "w_ucs" -> "w_to"
      [] p = "w_to" -> "w_body"
      [] p = "w_body" -> "rename"
      [] p = "rename" -> "chmod"

\* create_sms / simple_send_sms have accepted request r and call write_sms:
\* lines 173-176
CallWriteSms(s, r) ==
    /\ wpc[s] = "idle"
    /\ requests' = requests + 1
    /\ UNCHANGED faults
    /\ username' = Upd(username, s, r.user)
    /\ sms' = Upd(sms, s, [mobiles |-> r.mobiles, text |-> r.text])
    /\ result' = Upd(result, s, [message_id |-> EmptyDict, top |-> EmptyDict])
    /\ parts_count' = Upd(parts_count, s, 1)
    /\ ucs_field' = Upd(ucs_field, s, FALSE)
    /\ mobile_i' = Upd(mobile_i, s, 1)
    /\ response' = Upd(response, s, NoResponse)
    /\ wpc' = Upd(wpc, s, "for")
    /\ UNCHANGED <<modemVars, outgoingLock, outgoing, msg_file, msg>>

\* a send request arrives
StartSend(s) ==
    /\ requests < MaxRequests
    /\ \E r \in Requests : CallWriteSms(s, r)

\* lines 179-182: result[mobile] = 'Not valid'; continue
NotValid(s) ==
    /\ AtMobile(s)
    /\ ~validate_mobile(Mobile(s))
    /\ result' = Upd(result, s,
                     [result[s] EXCEPT
                        !.top = DictSet(@, Mobile(s), NotValidMarker)])
    /\ mobile_i' = Upd(mobile_i, s, mobile_i[s] + 1)
    /\ UNCHANGED <<modemVars, counters, outgoingLock, outgoing, wpc, username, sms,
                   msg_file, msg, ucs_field, parts_count, response>>

\* lines 208-210: result['message_id'][mobile] = 'Forbidden'
Forbidden(s) ==
    /\ AtMobile(s)
    /\ validate_mobile(Mobile(s))
    /\ ~access_mobile(username[s], Mobile(s))
    /\ result' = Upd(result, s,
                     [result[s] EXCEPT
                        !.message_id = DictSet(@, Mobile(s), ForbiddenMarker)])
    /\ mobile_i' = Upd(mobile_i, s, mobile_i[s] + 1)
    /\ UNCHANGED <<modemVars, counters, outgoingLock, outgoing, wpc, username, sms,
                   msg_file, msg, ucs_field, parts_count, response>>

\* lines 184-196: tempfile.mkstemp creates <name>.LOCK exclusively, for a
\* name of its choice for which that file does not exist; msg_file is the
\* name without the suffix; then the text is encoded and the empty file is
\* opened for writing
Mkstemp(s) ==
    /\ AtMobile(s)
    /\ validate_mobile(Mobile(s))
    /\ access_mobile(username[s], Mobile(s))
    /\ \E n \in Stems :
          /\ outgoingLock[n] = NoFile
          /\ outgoingLock' = Upd(outgoingLock, n, SpoolFile(<<>>, MkstempMode))
          /\ msg_file' = Upd(msg_file, s, n)
    /\ msg' = Upd(msg, s, Encoded(sms[s].text))
    /\ ucs_field' = Upd(ucs_field, s, UcsAfterEncode(sms[s].text, ucs_field[s]))
    /\ parts_count' =
          Upd(parts_count, s, PartsAfterEncode(sms[s].text, parts_count[s]))
    /\ wpc' = Upd(wpc, s,
                  StatementAfter("open",
                                 UcsAfterEncode(sms[s].text, ucs_field[s])))
    /\ UNCHANGED <<modemVars, counters, outgoing, username, sms, mobile_i,
                   result, response>>

\* f.write(chunk) on the file open under the .LOCK name
FileWrite(s, chunk) ==
    outgoingLock' =
        Upd(outgoingLock, msg_file[s],
            [outgoingLock[msg_file[s]] EXCEPT !.data = Append(@, chunk)])

\* line 197
WriteFrom(s) ==
    /\ wpc[s] = "w_from"
    /\ FileWrite(s, FromLine(username[s]))
    /\ wpc' = Upd(wpc, s, StatementAfter("w_from", ucs_field[s]))
    /\ UNCHANGED <<modemVars, counters, outgoing, response, sendLocals>>

\* lines 198-199
WriteAlphabet(s) ==
    /\ wpc[s] = "w_ucs"
    /\ FileWrite(s, AlphabetLine)
    /\ wpc' = Upd(wpc, s, StatementAfter("w_ucs", ucs_field[s]))
    /\ UNCHANGED <<modemVars, counters, outgoing, response, sendLocals>>

\* line 200: the unicode string is encoded to us-ascii by f.write, which
\* raises UnicodeEncodeError when it cannot be
WriteTo(s) ==
    /\ wpc[s] = "w_to"
    /\ \/ /\ IsAsciiStr(Mobile(s))
          /\ FileWrite(s, ToLines(Mobile(s)))
          /\ wpc' = Upd(wpc, s, StatementAfter("w_to", ucs_field[s]))
          /\ UNCHANGED <<response, sendLocals>>
       \/ /\ ~IsAsciiStr(Mobile(s))
          /\ Abort(s)
          /\ UNCHANGED outgoingLock
    /\ UNCHANGED <<modemVars, counters, outgoing>>

\* lines 201-202: f.write(msg); f.close()
WriteBody(s) ==
    /\ wpc[s] = "w_body"
    /\ FileWrite(s, Body(msg[s]))
    /\ wpc' = Upd(wpc, s, StatementAfter("w_body", ucs_field[s]))
    /\ UNCHANGED <<modemVars, counters, outgoing, response, sendLocals>>

\* line 203: os.rename(msg_file_lock, msg_file) replaces whatever file has
\* the final name
Rename(s) ==
    /\ wpc[s] = "rename"
    /\ outgoing' = Upd(outgoing, msg_file[s], outgoingLock[msg_file[s]])
    /\ outgoingLock' = Upd(outgoingLock, msg_file[s], NoFile)
    /\ wpc' = Upd(wpc, s, StatementAfter("rename", ucs_field[s]))
    /\ UNCHANGED <<modemVars, counters, response, sendLocals>>

\* lines 204-207: os.chmod(msg_file, 0666), which raises OSError when the
\* file is gone; then the base name is recorded as the mobile's message_id
Chmod(s) ==
    /\ wpc[s] = "chmod"
    /\ \/ /\ outgoing[msg_file[s]] # NoFile
          /\ outgoing' =
                Upd(outgoing, msg_file[s],
                    [outgoing[msg_file[s]] EXCEPT !.mode = SpoolMode])
          /\ result' =
                Upd(result, s,
                    [result[s] EXCEPT
                       !.message_id =
                           DictSet(@, Mobile(s), BaseName(msg_file[s]))])
          /\ mobile_i' = Upd(mobile_i, s, mobile_i[s] + 1)
          /\ wpc' = Upd(wpc, s, "for")
          /\ UNCHANGED <<username, sms, msg_file, msg, ucs_field, parts_count,
                         response>>
       \/ /\ outgoing[msg_file[s]] = NoFile
          /\ Abort(s)
          /\ UNCHANGED outgoing
    /\ UNCHANGED <<modemVars, counters, outgoingLock>>

\* the sender is at a call into the file system
AtFileOperation(s) ==
    \/ /\ AtMobile(s)
       /\ validate_mobile(Mobile(s))
       /\ access_mobile(username[s], Mobile(s))
    \/ wpc[s] \in {"w_from", "w_ucs", "w_to", "w_body", "rename", "chmod"}

\* mkstemp, open, write, close, rename or chmod raises IOError / OSError
\* (disk full, directory not writable, ...): write_sms has no handler
IOError(s) ==
    /\ AtFileOperation(s)
    /\ faults < MaxFaults
    /\ faults' = faults + 1
    /\ Abort(s)
    /\ UNCHANGED <<modemVars, requests, outgoingLock, outgoing>>

\* lines 211-213 and jsonify(result), 201
Return(s) ==
    /\ wpc[s] = "for"
    /\ mobile_i[s] > Len(sms[s].mobiles)
    /\ response' =
          Upd(response, s,
              Created([message_id |-> result[s].message_id,
                       top |-> result[s].top,
                       sent_text |-> sms[s].text,
                       parts_count |-> parts_count[s]]))
    /\ wpc' = Upd(wpc, s, "idle")
    /\ ClearLocals(s)
    /\ UNCHANGED <<modemVars, counters, outgoingLock, outgoing>>

\* the SMS daemon takes a file of the outgoing queue
DaemonConsume(n) ==
    /\ outgoing[n] # NoFile
    /\ outgoing' = Upd(outgoing, n, NoFile)
    /\ UNCHANGED <<modemVars, counters, outgoingLock, wpc, response, sendLocals>>

SenderStep(s) ==
    \/ StartSend(s)
    \/ NotValid(s)
    \/ Forbidden(s)
    \/ Mkstemp(s)
    \/ WriteFrom(s)
    \/ WriteAlphabet(s)
    \/ WriteTo(s)
    \/ WriteBody(s)
    \/ Rename(s)
    \/ Chmod(s)
    \/ IOError(s)
    \/ Return(s)

SpoolNext ==
    \/ \E s \in Senders : SenderStep(s)
    \/ \E n \in Stems : DaemonConsume(n)

\* one step of caller c inside a request
CallerStep(c) ==
    \/ AcquireBegin(c)
    \/ AcquirePoll(c)
    \/ Release(c)
    \/ SerialOpen(c)
    \/ SerialWrite(c)
    \/ ReadReply(c)
    \/ ReadOk(c)
    \/ SerialClose(c)
    \/ AfterCsq(c)
    \/ AfterCreg(c)
    \/ ResetNow(c)
    \/ ResetOpen(c)
    \/ ResetCreate(c)
    \/ ResetRead(c)
    \/ ResetDecide(c)
    \/ Spawn(c)
    \/ AfterReset(c)
    \/ ResetWrite(c)
    \/ ResetTruncate(c)
    \/ ResetClose(c)

ModemNext ==
    \/ \E c \in Callers : StartRequest(c)
    \/ \E c \in Callers : CallerStep(c)
    \/ Tick

Init == ModemInit /\ SpoolInit

Spec == Init /\ [][ModemNext]_vars

\* the spool writer starts in one deployment of the modem subsystem
SpoolStart ==
    Init /\ procOf = [c \in Callers |-> "p1"] /\ resetFile = FileMissing

SpoolSpec == SpoolStart /\ [][SpoolNext]_vars

\* the texts the part count is exercised with: every length up to
\* MaxTextLen, 7-bit or not
SegmentTexts == {[len |-> n, ascii |-> a] : n \in 0 .. MaxTextLen, a \in BOOLEAN}

\* one send request of a user with an allow-list, to a destination outside
\* the list and one inside it, with any text
SendText(s) ==
    /\ requests = 0
    /\ \E txt \in SegmentTexts :
          CallWriteSms(s, [user |-> "bert", mobiles |-> <<Mobile72, Mobile71>>,
                           text |-> txt])

\* write_sms run once, without interference, on every text
SegmentNext ==
    \/ SendText("s1")
    \/ Forbidden("s1")
    \/ Mkstemp("s1")
    \/ WriteFrom("s1")
    \/ WriteAlphabet("s1")
    \/ WriteTo("s1")
    \/ WriteBody("s1")
    \/ Rename("s1")
    \/ Chmod("s1")
    \/ Return("s1")

SegmentSpec == SpoolStart /\ [][SegmentNext]_vars

\* the modem line delivers anything at all
NoisyWrite(c) == SerialWriteFrom(c, AnyAnswers)

\* the health check starts in one deployment, with any timestamp file
ExchangeStart == Init /\ procOf = [c \in Callers |-> "p1"]

\* one caller runs health checks against a line that delivers anything
ExchangeNext ==
    \/ StartRequest("c1")
    \/ AcquireBegin("c1")
    \/ AcquirePoll("c1")
    \/ Release("c1")
    \/ SerialOpen("c1")
    \/ NoisyWrite("c1")
    \/ ReadReply("c1")
    \/ ReadOk("c1")
    \/ SerialClose("c1")
    \/ AfterCsq("c1")
    \/ AfterCreg("c1")
    \/ ResetNow("c1")
    \/ ResetOpen("c1")
    \/ ResetCreate("c1")
    \/ ResetRead("c1")
    \/ ResetDecide("c1")
    \/ Spawn("c1")
    \/ AfterReset("c1")
    \/ ResetWrite("c1")
    \/ ResetTruncate("c1")
    \/ ResetClose("c1")

ExchangeSpec == ExchangeStart /\ [][ExchangeNext]_vars

\* the requests with the clock at rest: no step of a request waits for the
\* clock, whose value only enters the timestamps reset_modem compares
RequestNext ==
    \/ \E c \in Callers : StartRequest(c)
    \/ \E c \in Callers : CallerStep(c)

\* every handler that is inside a request keeps being scheduled
FairSpec ==
    /\ Init
    /\ [][RequestNext]_vars
    /\ \A c \in Callers : WF_vars(CallerStep(c))

(***************************************************************************)
(* Properties of the modem health check.                                   *)
(***************************************************************************)
\* the caller is inside a `with SLOCK.acquire(timeout=20):' block
InCriticalSection(c) ==
    pc[c] \in {"open", "write", "read1", "read2", "read3", "close", "spawn",
               "release"}

\* the caller is inside SLOCK.acquire() or the block it guards, so that the
\* lock object of its process counts it
CountedByLock(c) == pc[c] = "poll" \/ InCriticalSection(c)

\* the caller is inside `with serial.Serial(...) as device:'
InSerialBlock(c) == pc[c] \in {"write", "read1", "read2", "read3", "close"}

\* C1: at every moment at most one caller, thread or process, is inside a
\* device critical section (the exchange of get_csq, the exchange of
\* get_creg, the spawn of perform_reset).
C1_MutualExclusion ==
    Cardinality({c \in Callers : InCriticalSection(c)}) <= 1

\* what SLOCK does give: callers of different processes never overlap
ProcessExclusion ==
    \A c, d \in Callers :
        InCriticalSection(c) /\ InCriticalSection(d) => procOf[c] = procOf[d]

\* C2: a caller that is not inside get_csq, get_creg or perform_reset any
\* more holds nothing: the lock object of each process counts exactly the
\* callers that are inside an acquisition, the lock file is held only for a
\* process with a caller counted, and only callers inside the serial block
\* have the device open.
C2_ReleasedOnEveryExit ==
    /\ \A p \in Procs :
          /\ lockCounter[p] =
                Cardinality({c \in Callers : procOf[c] = p /\ CountedByLock(c)})
          /\ flockHolder = p => lockCounter[p] > 0
    /\ \A c \in Callers : c \in openDevices => InSerialBlock(c)
    /\ \A c \in Callers :
          InCriticalSection(c) => flockHolder = procOf[c]

\* C2's case: an exchange has returned after a serial I/O error, another
\* after a lock timeout, and nothing is held
C2_Witness ==
    /\ \E c \in Callers : pc[c] = "ret" /\ fault[c] = "serial"
    /\ \E c \in Callers : pc[c] = "ret" /\ fault[c] = "timeout"
    /\ flockHolder = NoProc
    /\ openDevices = {}

\* C3: a lock timeout or serial I/O error in get_csq / get_creg is not
\* retried; the function returns (0, False), respectively (None, False),
\* and modem_status then answers 500 'modem not available'.
C3_UnavailabilityIsAValue ==
    [][\A c \in Callers :
          (fault[c] # "none" /\ op[c] \in {"csq", "creg"}) =>
              /\ pc[c] \in {"close", "release", "ret"}
              /\ ok[c] = PyFalse
              /\ op[c] = "csq" => csq[c] = PyInt(0)
              /\ op[c] = "creg" => creg[c] = PyNone
              /\ pc'[c] \in {"close", "release", "ret", "idle"}
              /\ pc'[c] = "idle" =>
                    rv'[c] = [t |-> "error", status |-> 500,
                              error |-> "modem not available"]]_vars

\* C3's case: get_creg has returned from a lock timeout
C3_Witness ==
    \E c \in Callers : pc[c] = "ret" /\ op[c] = "creg" /\ fault[c] = "timeout"

\* C4: every lock wait ends within the timeout and every modem_status
\* request eventually returns a response.
C4_BoundedWaiting ==
    /\ [](\A c \in Callers : polls[c] <= MaxPolls)
    /\ \A c \in Callers : (pc[c] # "idle") ~> (pc[c] = "idle")

\* C4's case: a request has waited for the lock until the timeout while
\* the other caller's device stays silent
C4_Witness ==
    \E c, d \in Callers :
        /\ pc[c] = "ret" /\ fault[c] = "timeout"
        /\ pc[d] = "read3" /\ csq[d] = PyBytes(NoLine)

\* the last reset time reset_modem works with, from what it found in the
\* reset file
LastSeen(c) ==
    IF ~created[c] /\ last_from_file[c].t = "num"
    THEN last_from_file[c].v ELSE 0

\* the current request has stored a timestamp taken during reset_modem
StoredCurrentTime(c) ==
    /\ written[c].t = "num"
    /\ now[c] <= written[c].v
    /\ written[c].v <= clock

\* C9 as stated: at the end of reset_modem, when now - last exceeded 300
\* the reset action was invoked exactly once and the current time stored;
\* otherwise nothing was invoked and nothing stored.
C9_ResetExactlyOnceWhenDue ==
    \A c \in Callers :
        pc[c] = "rm_close" =>
            IF now[c] - LastSeen(c) > 300
            THEN invoked[c] = 1 /\ StoredCurrentTime(c)
            ELSE invoked[c] = 0 /\ written[c] = PyNone

\* C9 amended: when now - last exceeded 300 and SLOCK was obtained, the
\* reset action was invoked exactly once and the current time stored; when
\* the acquisition timed out the reset action was not invoked; when now -
\* last did not exceed 300 nothing was invoked and nothing stored.
C9_ResetOnceUnlessLockTimeout ==
    \A c \in Callers :
        pc[c] = "rm_close" =>
            IF now[c] - LastSeen(c) > 300
            THEN IF fault[c] = "timeout"
                 THEN invoked[c] = 0
                 ELSE invoked[c] = 1 /\ StoredCurrentTime(c)
            ELSE invoked[c] = 0 /\ written[c] = PyNone

\* C9's case: the last reset was 400 time units ago, and reset_modem has
\* invoked the reset action once and stored the current time
C9_Witness ==
    \E c \in Callers :
        /\ pc[c] = "rm_close"
        /\ now[c] - LastSeen(c) = 400
        /\ invoked[c] = 1
        /\ resetFile = written[c]
        /\ StoredCurrentTime(c)

\* C10: when the lock cannot be obtained for the reset, the reset action is
\* not invoked and the cooldown is not started: the skipping request stores
\* no timestamp, so that the next health check finds the reset still due.
C10_SkippedResetNotRecorded ==
    \A c \in Callers :
        (pc[c] = "rm_close" /\ fault[c] = "timeout") =>
            invoked[c] = 0 /\ written[c] = PyNone

(***************************************************************************)
(* Properties of the spool writer.                                         *)
(***************************************************************************)
\* a complete spool file: From header, 'Alphabet: UCS' header when the text
\* is not 7-bit, To header and blank line, body
MessageContent(user, mobile, text) ==
    <<FromLine(user)>>
        \o (IF text.ascii THEN <<>> ELSE <<AlphabetLine>>)
        \o <<ToLines(mobile), Body(Encoded(text))>>

\* the complete files of the requests' destinations
CompleteContents ==
    UNION {{MessageContent(r.user, r.mobiles[i], r.text) :
               i \in 1 .. Len(r.mobiles)} : r \in Requests}

\* C5: every file visible under a final name holds the complete content of
\* a message, in every interleaving of writers and the daemon and after
\* every interrupted write: content is written under the .LOCK name and the
\* file is renamed only when it is complete.
C5_AtomicPublication ==
    \A n \in Stems :
        outgoing[n] # NoFile => outgoing[n].data \in CompleteContents

\* C5's case: a message is in the queue while an interrupted write has left
\* a partial .LOCK file behind and another write is half done
C5_Witness ==
    \E n, m \in Stems, s, r \in Senders :
        /\ outgoing[n] # NoFile
        /\ outgoingLock[m] # NoFile
        /\ outgoingLock[m].data # <<>>
        /\ outgoingLock[m].data \notin CompleteContents
        /\ response[r] = InternalError
        /\ wpc[s] = "w_body"
        /\ msg_file[s] # m

\* C6: an I/O error while spooling one destination is reported for that
\* destination only: whenever a send request ends, it answers with the
\* result map, which has an entry for every destination of the request.
C6_FailureIsolation ==
    [][\A s \in Senders :
          (wpc[s] # "idle" /\ wpc'[s] = "idle") =>
              /\ response'[s].t = "result"
              /\ \A i \in 1 .. Len(sms[s].mobiles) :
                    sms[s].mobiles[i] \in
                        (DOMAIN response'[s].body.message_id)
                            \cup (DOMAIN response'[s].body.top)]_vars

\* C7: successful spool writes yield distinct message_ids naming distinct
\* final files: the rename never replaces a final file that is still in the
\* queue, and the ids one response reports for its destinations differ.
C7_UniqueMessageIds ==
    [][\A s \in Senders :
          /\ (wpc[s] = "rename" /\ wpc'[s] = "chmod") =>
                outgoing[msg_file[s]] = NoFile
          /\ (wpc[s] = "for" /\ wpc'[s] = "idle"
                /\ response'[s].t = "result") =>
                \A k1, k2 \in DOMAIN response'[s].body.message_id :
                    (/\ k1 # k2
                     /\ response'[s].body.message_id[k1].t = "name"
                     /\ response'[s].body.message_id[k2].t = "name") =>
                        response'[s].body.message_id[k1] #
                            response'[s].body.message_id[k2]]_vars

\* C8: every file visible under a final name has mode 0666.
C8_FinalFilesPermissionOpened ==
    \A n \in Stems : outgoing[n] # NoFile => outgoing[n].mode = 438

\* C11: the persisted reset timestamp never decreases: every timestamp
\* stored in the reset file is greater than or equal to the timestamp it
\* replaces.
C11_TimestampNeverDecreases ==
    [][(resetFile.t = "num" /\ resetFile'.t = "num") =>
          resetFile'.v >= resetFile.v]_vars

\* get_csq has returned a reply it read, with a non-empty status token
SignalRead(c) ==
    /\ pc[c] = "ret"
    /\ op[c] = "csq"
    /\ Truthy(ok[c])
    /\ csq[c].t = "bytes"

\* get_creg has returned a reply it read, with a non-empty status token
RegistrationRead(c) ==
    /\ pc[c] = "ret"
    /\ op[c] = "creg"
    /\ Truthy(ok[c])
    /\ creg[c].t = "bytes"

\* C12: when the signal query succeeded with a parsed value in [10,99) and
\* the registration query succeeds with a parsed value of 1 or 5,
\* modem_status produces a success response with status 200.
C12_HealthyGivesSuccess ==
    [][\A c \in Callers :
          (/\ RegistrationRead(c)
           /\ parse_creg(creg[c].b) \in {1, 5}
           /\ pc'[c] = "idle") =>
              rv'[c].t = "response" /\ rv'[c].status = 200]_vars

\* C13: a signal read with a parsed value outside [10,99) answers 500
\* 'modem not connected or weak signal', directly or after reset_modem;
\* reset_modem is entered if and only if the parsed value is 99; get_creg
\* is called only after a signal read with a value in [10,99); and a
\* registration read with a parsed value outside {1,5} answers 500
\* 'registration problem'.
C13_DegradedVerdictAndResetTrigger ==
    [][\A c \in Callers :
          /\ (/\ SignalRead(c)
              /\ pc'[c] # pc[c]
              /\ ~(10 <= parse_csq(csq[c].b) /\ parse_csq(csq[c].b) < 99)) =>
                 IF parse_csq(csq[c].b) = 99
                 THEN pc'[c] = "rm_now"
                 ELSE /\ pc'[c] = "idle"
                      /\ rv'[c] = [t |-> "error", status |-> 500,
                                   error |->
                                     "modem not connected or weak signal"]
          /\ (pc[c] = "rm_close" /\ pc'[c] # pc[c]) =>
                 /\ pc'[c] = "idle"
                 /\ rv'[c] = [t |-> "error", status |-> 500,
                              error |-> "modem not connected or weak signal"]
          /\ (pc'[c] = "rm_now" /\ pc[c] # "rm_now") =>
                 SignalRead(c) /\ parse_csq(csq[c].b) = 99
          /\ (op'[c] = "creg" /\ op[c] # "creg") =>
                 /\ SignalRead(c)
                 /\ 10 <= parse_csq(csq[c].b)
                 /\ parse_csq(csq[c].b) < 99
          /\ (/\ RegistrationRead(c)
              /\ pc'[c] # pc[c]
              /\ parse_creg(creg[c].b) \notin {1, 5}) =>
                 /\ pc'[c] = "idle"
                 /\ rv'[c] = [t |-> "error", status |-> 500,
                              error |-> "registration problem"]]_vars

\* C13's case: one request has read signal value 99 and entered
\* reset_modem while another has read signal value 5
C13_Witness ==
    \E c, d \in Callers :
        /\ pc[c] = "rm_now"
        /\ SignalRead(d)
        /\ parse_csq(csq[d].b) = 5

(***************************************************************************)
(* Properties of the part count and of the send response.                  *)
(***************************************************************************)
\* ceil(a / b) over the integers
Ceiling(a, b) == CHOOSE q \in 0 .. a : (q - 1) * b < a /\ a <= q * b

\* the segment-count law: 160 characters in one part and 153 per part of a
\* multipart message for 7-bit text, 70 and 67 for UCS2
SegmentLaw(text) ==
    IF text.ascii
    THEN IF text.len <= 160 THEN 1 ELSE Ceiling(text.len, 153)
    ELSE IF text.len <= 70 THEN 1 ELSE Ceiling(text.len, 67)

\* the response reports a spooled destination
SomeSpooled(r) ==
    /\ r.t = "result"
    /\ \E k \in DOMAIN r.body.message_id : r.body.message_id[k].t = "name"

\* the file has the header 'Alphabet: UCS'
HasAlphabetHeader(f) ==
    \E i \in 1 .. Len(f.data) : f.data[i].h = AlphabetLine.h

\* C14: the parts_count of a response that reports a spooled destination
\* follows the segment-count law for its text, and a spooled file has the
\* header 'Alphabet: UCS' and a utf-16-be body exactly when its text is not
\* 7-bit representable.
C14_SegmentCountLaw ==
    /\ \A s \in Senders :
          SomeSpooled(response[s]) =>
              response[s].body.parts_count
                  = SegmentLaw(response[s].body.sent_text)
    /\ \A n \in Stems :
          outgoing[n] # NoFile =>
              LET body == outgoing[n].data[Len(outgoing[n].data)].v
              IN  /\ HasAlphabetHeader(outgoing[n]) <=> ~body.text.ascii
                  /\ body.enc =
                        IF body.text.ascii THEN "us-ascii" ELSE "utf-16-be"

\* C14's case: a text of 2 * 67 characters that is not 7-bit representable
\* has been spooled with the UCS header and reported with 2 parts
C14_Witness ==
    \E s \in Senders, n \in Stems :
        /\ SomeSpooled(response[s])
        /\ response[s].body.sent_text = [len |-> 134, ascii |-> FALSE]
        /\ response[s].body.parts_count = 2
        /\ outgoing[n] # NoFile
        /\ HasAlphabetHeader(outgoing[n])

\* C15 as stated: a 7-bit text of length L with 160 < L <= 313 is reported
\* with 2 parts.
C15_TwoPartsUpTo313 ==
    \A s \in Senders :
        (/\ SomeSpooled(response[s])
         /\ response[s].body.sent_text.ascii
         /\ 160 < response[s].body.sent_text.len
         /\ response[s].body.sent_text.len <= 313) =>
            response[s].body.parts_count = 2

\* C15 amended: a 7-bit text of length L with 160 < L <= 306 is reported
\* with 2 parts.
C15_TwoPartsUpTo306 ==
    \A s \in Senders :
        (/\ SomeSpooled(response[s])
         /\ response[s].body.sent_text.ascii
         /\ 160 < response[s].body.sent_text.len
         /\ response[s].body.sent_text.len <= 306) =>
            response[s].body.parts_count = 2

\* C15's case: a 7-bit text of 306 characters has been reported with 2
\* parts
C15_Witness ==
    \E s \in Senders :
        /\ SomeSpooled(response[s])
        /\ response[s].body.sent_text = [len |-> 306, ascii |-> TRUE]
        /\ response[s].body.parts_count = 2

\* the destination consists solely of the digits 0 to 9
SolelyDigits(d) == Len(d) > 0 /\ \A i \in 1 .. Len(d) : d[i] \in Digits

\* user u has no allow-list, or destination d is in it
Permitted(u, d) ==
    u \in DOMAIN MOBILE_PERMS =>
        \E i \in 1 .. Len(MOBILE_PERMS[u]) : MOBILE_PERMS[u][i] = d

\* sender s creates the file <n>.LOCK in this step
CreatesFile(s, n) ==
    /\ outgoingLock[n] = NoFile
    /\ outgoingLock'[n] # NoFile
    /\ wpc[s] = "for"
    /\ wpc'[s] # "for"
    /\ msg_file'[s] = n

\* C16: a file appears in the outgoing directory, under a temporary or a
\* final name, only on behalf of a sender whose current destination
\* consists solely of digits and is permitted to its user; a sender at a
\* destination that is digits but not permitted records the 'Forbidden'
\* marker for it, creates no file and goes on to the next destination.
C16_SpoolingGated ==
    [][/\ \A n \in Stems :
             outgoingLock[n] = NoFile /\ outgoingLock'[n] # NoFile =>
                 \E s \in Senders :
                     /\ CreatesFile(s, n)
                     /\ SolelyDigits(Mobile(s))
                     /\ Permitted(username[s], Mobile(s))
       /\ \A n \in Stems :
             outgoing[n] = NoFile /\ outgoing'[n] # NoFile =>
                 \E s \in Senders :
                     /\ wpc[s] = "rename"
                     /\ msg_file[s] = n
                     /\ SolelyDigits(Mobile(s))
                     /\ Permitted(username[s], Mobile(s))
       /\ \A s \in Senders :
             (/\ AtMobile(s)
              /\ SolelyDigits(Mobile(s))
              /\ ~Permitted(username[s], Mobile(s))
              /\ wpc'[s] # wpc[s] \/ mobile_i'[s] # mobile_i[s]) =>
                 /\ wpc'[s] = "for"
                 /\ mobile_i'[s] = mobile_i[s] + 1
                 /\ result'[s].message_id
                        = DictSet(result[s].message_id, Mobile(s),
                                  ForbiddenMarker)
                 /\ \A n \in Stems : ~CreatesFile(s, n)
      ]_vars

\* the destinations of a request, as a set
Destinations(r) == {r.mobiles[i] : i \in 1 .. Len(r.mobiles)}

\* C17: while a request returns, the message_id map of its result has
\* every destination of the request as a key, with 'Not valid' for a
\* destination that is not digits, 'Forbidden' for a denied one and the
\* name of a file otherwise, and the result has no top-level key besides
\* message_id, sent_text and parts_count.
C17_OneOutcomePerDestination ==
    [][\A s \in Senders :
          (wpc[s] = "for" /\ response'[s].t = "result") =>
              /\ DOMAIN response'[s].body.message_id = Destinations(sms[s])
              /\ response'[s].body.top = EmptyDict
              /\ \A d \in Destinations(sms[s]) :
                    response'[s].body.message_id[d] =
                        IF ~SolelyDigits(d) THEN NotValidMarker
                        ELSE IF ~Permitted(username[s], d)
                             THEN ForbiddenMarker
                             ELSE response'[s].body.message_id[d]
              /\ \A d \in Destinations(sms[s]) :
                    (SolelyDigits(d) /\ Permitted(username[s], d)) =>
                        response'[s].body.message_id[d].t = "name"
      ]_vars

\* C20: the parts_count of a result is the segment count of the request's
\* text under the segment-count law, whatever happened to the destinations.
C20_PartsCountDependsOnTextOnly ==
    \A s \in Senders :
        response[s].t = "result" =>
            response[s].body.parts_count
                = SegmentLaw(response[s].body.sent_text)

\* the request of caller c has invoked the reset action
HasReset(c) == invoked[c] = 1

\* C19: a request invokes the reset action at most once, only after it
\* read the signal value 99 and found more than the minimum interval
\* elapsed since the timestamp it read itself; only the spawn is inside the
\* lock, the read, the test and the write of the timestamp are not.
C19_ResetDecidedPerRequest ==
    \A c \in Callers :
        /\ invoked[c] \in {0, 1}
        /\ HasReset(c) =>
              /\ csq[c].t = "bytes"
              /\ parse_csq(csq[c].b) = 99
              /\ now[c] - LastSeen(c) > 300
        /\ pc[c] = "spawn" => lockCounter[procOf[c]] > 0
        /\ pc[c] \in {"rm_now", "rm_open", "rm_create", "rm_read", "rm_decide",
                      "rm_write", "rm_truncate", "rm_close"} =>
              ~CountedByLock(c)

\* C19's case: two concurrent requests have both read 99, both passed the
\* elapsed-time test and both invoked the reset action, less than the
\* minimum interval apart
C19_Witness ==
    \E c \in Callers, d \in Callers :
        /\ c # d
        /\ HasReset(c) /\ HasReset(d)
        /\ parse_csq(csq[c].b) = 99 /\ parse_csq(csq[d].b) = 99
        /\ now[c] <= now[d]
        /\ now[d] - now[c] < 300
        /\ clock - now[c] < 300

(***************************************************************************)
(* Properties of the exchange on a line that delivers anything.            *)
(***************************************************************************)
\* the line begins with the bytes AT, as the echo of a command does
BeginsWithAT(line) == Len(line) >= 2 /\ line[1] = "A" /\ line[2] = "T"

\* the reply local of the exchange caller c runs
ReplyOf(c) == IF op[c] = "csq" THEN csq[c] ELSE creg[c]

\* the signal value and the registration state a line carries: of the lines
\* that arrive only these are well-formed replies, all others carry none
SignalIn(line) ==
    CASE line = CsqUnknown -> 99 [] line = CsqGood -> 20 [] OTHER -> 0
RegistrationIn(line) == IF line = CregHome THEN 1 ELSE -1

\* C18: a first line that begins with the command echo is discarded, the
\* next line is the reply that gets parsed and one further line is read as
\* the status token; whatever the lines are, no exception leaves the view,
\* and a reply that is not well-formed is treated as signal 0, respectively
\* as registration -1, unless the query reports ok false.
C18_EchoStrippedGarbageTolerated ==
    [][\A c \in Callers :
          /\ (pc[c] = "read1" /\ pc'[c] \in {"read2", "read3"}) =>
                (pc'[c] = "read2" <=> BeginsWithAT(rx[c][1]))
          /\ (pc[c] = "read2" /\ pc'[c] # "read2") =>
                \/ /\ pc'[c] = "read3"
                   /\ ReplyOf(c)' = PyBytes(rx[c][1])
                   /\ rx'[c] = Tail(rx[c])
                \/ fault'[c] = "serial"
          /\ (pc[c] = "read3" /\ pc'[c] # "read3") =>
                \/ /\ pc'[c] = "close"
                   /\ ok'[c] = PyBytes(Strip(rx[c][1]))
                   /\ rx'[c] = Tail(rx[c])
                   /\ UNCHANGED ReplyOf(c)
                \/ fault'[c] = "serial"
          /\ rv'[c] # InternalError
          /\ (pc[c] = "ret" /\ op[c] = "csq" /\ pc'[c] # "ret") =>
                IF ~Truthy(ok[c]) THEN rv'[c] = NotAvailable
                ELSE /\ csq[c].t = "bytes"
                     /\ SignalIn(csq[c].b) = 0 =>
                           rv'[c] = WeakSignal /\ pc'[c] = "idle"
                     /\ SignalIn(csq[c].b) = 99 => pc'[c] = "rm_now"
                     /\ SignalIn(csq[c].b) = 20 => op'[c] = "creg"
          /\ (pc[c] = "ret" /\ op[c] = "creg") =>
                IF ~Truthy(ok[c]) THEN rv'[c] = NotAvailable
                ELSE /\ creg[c].t = "bytes"
                     /\ RegistrationIn(creg[c].b) = -1 =>
                           rv'[c] = RegistrationProblem
                     /\ RegistrationIn(creg[c].b) = 1 => rv'[c] = PyNone
      ]_vars

\* C18's case: after an echo, a reply that is no reply and a status token
\* that is no OK have been read, three lines in all
C18_Witness ==
    \E c \in Callers :
        /\ pc[c] = "close"
        /\ op[c] = "csq"
        /\ rx[c] = <<>>
        /\ csq[c] = PyBytes(HighByte)
        /\ ok[c] = PyBytes(Strip(ErrorLine))
        /\ fault[c] = "none"

====
